---------------------------- MODULE Spec2Model ----------------------------
(***************************************************************************)
(* Story Architect AI backend (backend/main.py): provider dispatch,        *)
(* response normalisation and the flat-file project store.                 *)
(*                                                                         *)
(* Text is a sequence of one-character strings, so that str.strip, the     *)
(* fixed-offset slice [7:-3], JSON decoding and JSON encoding are computed  *)
(* character by character, as the code computes them.                      *)
(***************************************************************************)
EXTENDS Integers, Sequences, FiniteSets, TLC

(***************************************************************************)
(* Bounds of the model.                                                    *)
(***************************************************************************)
\* how many ids uuid4 hands out: no more projects than this are created
MaxUuid == 2
\* the wall clock (datetime.utcnow) runs from 1 to MaxClock
MaxClock == 2
\* threads of the server's thread pool that carry a request at the same time
MaxThreads == 2

\* The(S) is the element of a one-element set S.  The({e(x) : x \in {v}}) is
\* e(v), with v computed once.
The(S) == CHOOSE x \in S : TRUE

(***************************************************************************)
(* Python str operations.                                                  *)
(***************************************************************************)
Whitespace == {" ", "\n", "\t", "\r"}

RECURSIVE lstrip(_)
lstrip(s) ==
    IF s # <<>> /\ Head(s) \in Whitespace THEN lstrip(Tail(s)) ELSE s

RECURSIVE rstrip(_)
rstrip(s) ==
    IF s # <<>> /\ s[Len(s)] \in Whitespace
    THEN rstrip(SubSeq(s, 1, Len(s) - 1))
    ELSE s

\* str.strip()
strip(s) == rstrip(lstrip(s))

\* str.startswith(prefix)
startswith(s, prefix) ==
    /\ Len(s) >= Len(prefix)
    /\ SubSeq(s, 1, Len(prefix)) = prefix

\* the slice s[a:-b] for a, b > 0
SliceFromTo(s, a, b) == SubSeq(s, a + 1, Len(s) - b)

(***************************************************************************)
(* JSON values as Python holds them: dict, list, str, int, None.           *)
(***************************************************************************)
PyNone == [t |-> "none", v |-> 0]
PyInt(n) == [t |-> "int", v |-> n]
PyStr(s) == [t |-> "str", v |-> s]
PyList(l) == [t |-> "list", v |-> l]
PyDict(d) == [t |-> "dict", v |-> d]
EmptyDict == PyDict(<<>>)

\* d[key] = val on a dict: a repeated key keeps the last value
DictSet(d, key, val) ==
    [k \in (DOMAIN d) \cup {key} |-> IF k = key THEN val ELSE d[k]]

Digits == <<"0", "1", "2", "3", "4", "5", "6", "7", "8", "9">>
IsDigit(c) == \E i \in 1..10 : Digits[i] = c
DigitVal(c) == (CHOOSE i \in 1..10 : Digits[i] = c) - 1

(***************************************************************************)
(* json.loads: a decoder result is [ok, val, next]; ok = FALSE stands for  *)
(* json.JSONDecodeError.                                                   *)
(***************************************************************************)
Fail == [ok |-> FALSE, val |-> PyNone, next |-> 0]
Ok(val, next) == [ok |-> TRUE, val |-> val, next |-> next]

RECURSIVE SkipWs(_, _)
SkipWs(s, i) ==
    IF i <= Len(s) /\ s[i] \in Whitespace THEN SkipWs(s, i + 1) ELSE i

\* the body of a string, from the character after its opening quote
RECURSIVE ScanString(_, _, _)
ScanString(s, i, acc) ==
    IF i > Len(s) THEN Fail
    ELSE IF s[i] = "\"" THEN Ok(acc, i + 1)
    ELSE IF s[i] = "\\"
         THEN IF i + 1 <= Len(s) /\ s[i + 1] \in {"\"", "\\"}
              THEN ScanString(s, i + 2, Append(acc, s[i + 1]))
              ELSE IF i + 1 <= Len(s) /\ s[i + 1] = "n"
              THEN ScanString(s, i + 2, Append(acc, "\n"))
              ELSE Fail
    ELSE IF s[i] \in {"\n", "\t", "\r"} THEN Fail
    ELSE ScanString(s, i + 1, Append(acc, s[i]))

RECURSIVE ScanDigits(_, _, _)
ScanDigits(s, i, acc) ==
    IF i <= Len(s) /\ IsDigit(s[i])
    THEN ScanDigits(s, i + 1, 10 * acc + DigitVal(s[i]))
    ELSE Ok(PyInt(acc), i)

RECURSIVE ParseValue(_, _)
RECURSIVE ParseMembers(_, _, _)
RECURSIVE ParseElements(_, _, _)

\* after the value v of key k: "}" ends the object, "," starts the next pair
MemberEnd(s, e, d) ==
    IF e > Len(s) THEN Fail
    ELSE IF s[e] = "}" THEN Ok(PyDict(d), e + 1)
    ELSE IF s[e] = "," THEN ParseMembers(s, SkipWs(s, e + 1), d)
    ELSE Fail

\* after the key k: ":" at c, then the value
MemberValue(s, k, c, acc) ==
    IF c > Len(s) \/ s[c] # ":" THEN Fail
    ELSE The({IF ~v.ok THEN Fail
              ELSE MemberEnd(s, SkipWs(s, v.next), DictSet(acc, k.val, v.val)) :
              v \in {ParseValue(s, SkipWs(s, c + 1))}})

\* one "key": value pair at i, then "," and the next pair, or "}"
ParseMembers(s, i, acc) ==
    IF i > Len(s) \/ s[i] # "\"" THEN Fail
    ELSE The({IF ~k.ok THEN Fail ELSE MemberValue(s, k, SkipWs(s, k.next), acc) :
              k \in {ScanString(s, i + 1, <<>>)}})

\* after an element: "]" ends the array, "," starts the next element
ElementEnd(s, e, l) ==
    IF e > Len(s) THEN Fail
    ELSE IF s[e] = "]" THEN Ok(PyList(l), e + 1)
    ELSE IF s[e] = "," THEN ParseElements(s, SkipWs(s, e + 1), l)
    ELSE Fail

\* one value at i, then "," and the next value, or "]"
ParseElements(s, i, acc) ==
    The({IF ~v.ok THEN Fail
         ELSE ElementEnd(s, SkipWs(s, v.next), Append(acc, v.val)) :
         v \in {ParseValue(s, i)}})

\* the string that opens at i
ParseString(s, i) ==
    The({IF r.ok THEN Ok(PyStr(r.val), r.next) ELSE Fail :
         r \in {ScanString(s, i + 1, <<>>)}})

\* the object whose first token is at j, after "{"
ParseObject(s, j) ==
    IF j <= Len(s) /\ s[j] = "}" THEN Ok(EmptyDict, j + 1)
    ELSE ParseMembers(s, j, <<>>)

\* the array whose first token is at j, after "["
ParseArray(s, j) ==
    IF j <= Len(s) /\ s[j] = "]" THEN Ok(PyList(<<>>), j + 1)
    ELSE ParseElements(s, j, <<>>)

ParseValue(s, i) ==
    IF i > Len(s) THEN Fail
    ELSE IF s[i] = "\"" THEN ParseString(s, i)
    ELSE IF s[i] = "{" THEN ParseObject(s, SkipWs(s, i + 1))
    ELSE IF s[i] = "[" THEN ParseArray(s, SkipWs(s, i + 1))
    ELSE IF s[i] = "0" THEN Ok(PyInt(0), i + 1)
    ELSE IF IsDigit(s[i]) THEN ScanDigits(s, i, 0)
    ELSE IF SubSeq(s, i, i + 3) = <<"n", "u", "l", "l">> THEN Ok(PyNone, i + 4)
    ELSE Fail

\* json.loads(s): one value, whitespace around it, nothing after it
json_loads(s) ==
    The({IF r.ok /\ SkipWs(s, r.next) = Len(s) + 1 THEN r ELSE Fail :
         r \in {ParseValue(s, SkipWs(s, 1))}})

(***************************************************************************)
(* JSON encoding, as model_dump_json writes it (indentation, which is      *)
(* whitespace between tokens, is left out).                                *)
(***************************************************************************)
RECURSIVE EscapeStr(_)
EscapeStr(s) ==
    IF s = <<>> THEN <<>>
    ELSE (IF Head(s) \in {"\"", "\\"} THEN <<"\\", Head(s)>>
          ELSE IF Head(s) = "\n" THEN <<"\\", "n">>
          ELSE <<Head(s)>>) \o EscapeStr(Tail(s))

DumpStr(s) == <<"\"">> \o EscapeStr(s) \o <<"\"">>

RECURSIVE ToDigits(_)
ToDigits(n) ==
    IF n < 10 THEN <<Digits[n + 1]>>
    ELSE ToDigits(n \div 10) \o <<Digits[(n % 10) + 1]>>

RECURSIVE json_dumps(_)
RECURSIVE DumpMembers(_, _)
RECURSIVE DumpElements(_)

DumpMembers(d, keys) ==
    IF keys = {} THEN <<>>
    ELSE The({DumpStr(k) \o <<":">> \o json_dumps(d[k])
                  \o (IF keys = {k} THEN <<>>
                      ELSE <<",">> \o DumpMembers(d, keys \ {k})) :
              k \in {CHOOSE key \in keys : TRUE}})

DumpElements(l) ==
    IF l = <<>> THEN <<>>
    ELSE json_dumps(Head(l))
             \o (IF Tail(l) = <<>> THEN <<>> ELSE <<",">> \o DumpElements(Tail(l)))

json_dumps(v) ==
    CASE v.t = "dict" -> <<"{">> \o DumpMembers(v.v, DOMAIN v.v) \o <<"}">>
      [] v.t = "list" -> <<"[">> \o DumpElements(v.v) \o <<"]">>
      [] v.t = "str"  -> DumpStr(v.v)
      [] v.t = "int"  -> ToDigits(v.v)
      [] v.t = "none" -> <<"n", "u", "l", "l">>

(***************************************************************************)
(* class Provider(str, Enum)                                               *)
(***************************************************************************)
Provider ==
    {"GOOGLE", "OPENAI", "ANTHROPIC", "ZHIPU", "MOONSHOT", "BAIDU", "ALIBABA"}

ProviderValue(p) ==
    CASE p = "GOOGLE"    -> <<"g", "o", "o", "g", "l", "e">>
      [] p = "OPENAI"    -> <<"o", "p", "e", "n", "a", "i">>
      [] p = "ANTHROPIC" -> <<"a", "n", "t", "h", "r", "o", "p", "i", "c">>
      [] p = "ZHIPU"     -> <<"z", "h", "i", "p", "u">>
      [] p = "MOONSHOT"  -> <<"m", "o", "o", "n", "s", "h", "o", "t">>
      [] p = "BAIDU"     -> <<"b", "a", "i", "d", "u">>
      [] p = "ALIBABA"   -> <<"a", "l", "i", "b", "a", "b", "a">>

(***************************************************************************)
(* Field names of the pydantic models.                                     *)
(***************************************************************************)
K_id == <<"i", "d">>
K_title == <<"t", "i", "t", "l", "e">>
K_created_at == <<"c", "r", "e", "a", "t", "e", "d", "_", "a", "t">>
K_provider == <<"p", "r", "o", "v", "i", "d", "e", "r">>
K_concept == <<"c", "o", "n", "c", "e", "p", "t">>
K_outline == <<"o", "u", "t", "l", "i", "n", "e">>
K_genre == <<"g", "e", "n", "r", "e">>
K_theme == <<"t", "h", "e", "m", "e">>
K_core_idea == <<"c", "o", "r", "e", "_", "i", "d", "e", "a">>
K_style == <<"s", "t", "y", "l", "e">>
K_summary == <<"s", "u", "m", "m", "a", "r", "y">>
K_characters == <<"c", "h", "a", "r", "a", "c", "t", "e", "r", "s">>

\* a validation result: ok = FALSE stands for pydantic's ValidationError
Invalid == [ok |-> FALSE, val |-> <<>>]
Valid(val) == [ok |-> TRUE, val |-> val]

IsStrField(d, k) == k \in DOMAIN d /\ d[k].t = "str"

\* datetime <-> ISO 8601 text: a datetime is a count of clock ticks
isoformat(t) == ToDigits(t)
fromisoformat(s) ==
    IF s # <<>> /\ (\A i \in 1..Len(s) : IsDigit(s[i]))
       /\ (Len(s) = 1 \/ s[1] # "0")
    THEN Valid(ScanDigits(s, 1, 0).val.v)
    ELSE Invalid

\* Provider(value)
ProviderFromValue(s) ==
    IF \E p \in Provider : ProviderValue(p) = s
    THEN Valid(CHOOSE p \in Provider : ProviderValue(p) = s)
    ELSE Invalid

\* ProjectConcept(**d)
ProjectConceptValidate(v) ==
    IF /\ v.t = "dict"
       /\ \A k \in {K_genre, K_theme, K_core_idea, K_style} : IsStrField(v.v, k)
    THEN Valid([genre |-> v.v[K_genre].v, theme |-> v.v[K_theme].v,
                core_idea |-> v.v[K_core_idea].v, style |-> v.v[K_style].v])
    ELSE Invalid

\* Project(**data): data is a dict
ProjectValidate(d) ==
    IF /\ IsStrField(d, K_id)
       /\ IsStrField(d, K_title)
       /\ IsStrField(d, K_created_at)
       /\ fromisoformat(d[K_created_at].v).ok
       /\ IsStrField(d, K_provider)
       /\ ProviderFromValue(d[K_provider].v).ok
       /\ K_concept \in DOMAIN d
       /\ ProjectConceptValidate(d[K_concept]).ok
       /\ (K_outline \in DOMAIN d => d[K_outline].t = "dict")
    THEN Valid([id |-> d[K_id].v,
                title |-> d[K_title].v,
                created_at |-> fromisoformat(d[K_created_at].v).val,
                provider |-> ProviderFromValue(d[K_provider].v).val,
                concept |-> ProjectConceptValidate(d[K_concept]).val,
                outline |-> IF K_outline \in DOMAIN d
                            THEN d[K_outline] ELSE EmptyDict])
    ELSE Invalid

\* ProjectMetadata(**data): the other keys of data are ignored
ProjectMetadataValidate(d) ==
    IF /\ IsStrField(d, K_id)
       /\ IsStrField(d, K_title)
       /\ IsStrField(d, K_created_at)
       /\ fromisoformat(d[K_created_at].v).ok
    THEN Valid([id |-> d[K_id].v,
                title |-> d[K_title].v,
                created_at |-> fromisoformat(d[K_created_at].v).val])
    ELSE Invalid

\* ChapterAnalysisResponse(**data)
ChapterAnalysisResponseValidate(d) ==
    IF /\ IsStrField(d, K_summary)
       /\ K_characters \in DOMAIN d
       /\ d[K_characters].t = "list"
       /\ \A i \in 1..Len(d[K_characters].v) : d[K_characters].v[i].t = "str"
    THEN Valid([summary |-> d[K_summary].v,
                characters |-> [i \in 1..Len(d[K_characters].v) |->
                                   d[K_characters].v[i].v]])
    ELSE Invalid

\* project.model_dump_json(indent=4)
model_dump_json(project) ==
    json_dumps(PyDict(
        (K_id :> PyStr(project.id))
        @@ (K_title :> PyStr(project.title))
        @@ (K_created_at :> PyStr(isoformat(project.created_at)))
        @@ (K_provider :> PyStr(ProviderValue(project.provider)))
        @@ (K_concept :> PyDict(
                (K_genre :> PyStr(project.concept.genre))
                @@ (K_theme :> PyStr(project.concept.theme))
                @@ (K_core_idea :> PyStr(project.concept.core_idea))
                @@ (K_style :> PyStr(project.concept.style))))
        @@ (K_outline :> project.outline)))


(***************************************************************************)
(* File paths and ids.                                                     *)
(***************************************************************************)
DATA_DIR == <<".", ".", "/", "d", "a", "t", "a">>

\* get_project_path
get_project_path(project_id) ==
    DATA_DIR \o <<"/">> \o project_id \o <<".", "j", "s", "o", "n">>

\* uuid4 values, and f"story_{uuid.uuid4()}"
Uuids == 1..MaxUuid
ProjectId(u) == <<"s", "t", "o", "r", "y", "_">> \o ToDigits(u)

(***************************************************************************)
(* HTTP outcomes.  detail is the kind of error the caller sees.            *)
(***************************************************************************)
NotFound == "Project not found"
Unsupported == "Provider not yet supported"
ParseFailure == "Failed to parse JSON from model response"
ProviderFailure == "An error occurred with provider"
ServerError == "Internal Server Error"
NoBody == <<>>

Response(status, detail, body) ==
    [status |-> status, detail |-> detail, body |-> body]

\* what a handler did: its response, the files it leaves, its vendor calls
Outcome(resp, fs, calls) == [resp |-> resp, files |-> fs, calls |-> calls]

(***************************************************************************)
(* The provider dispatcher.  A vendor reply is [raised, text]: the SDK     *)
(* call raises, or returns the model's text.  A dispatch result is         *)
(* [exc, status, val, calls].                                              *)
(***************************************************************************)
Backtick == "grave"
Fence == <<Backtick, Backtick, Backtick, "j", "s", "o", "n">>
FenceOpenLen == 7
FenceCloseLen == 3

Raise(exc, status, calls) ==
    [exc |-> exc, status |-> status, val |-> PyNone, calls |-> calls]
Return(val, calls) ==
    [exc |-> "none", status |-> 0, val |-> val, calls |-> calls]

\* json.loads on the text a vendor call returned
LoadReply(text, calls) ==
    The({IF r.ok THEN Return(r.val, calls) ELSE Raise("JSONDecodeError", 0, calls) :
         r \in {json_loads(text)}})

\* StripFence without the fence handling: the text is only stripped of
\* whitespace, as for a JSON-mode provider
StripFence_NoFence(text) == strip(text)

\* json_text = text.strip(); if json_text.startswith(fence): json_text[7:-3].strip()
StripFence(text) ==
    The({IF startswith(json_text, Fence)
         THEN strip(SliceFromTo(json_text, FenceOpenLen, FenceCloseLen))
         ELSE json_text :
         json_text \in {strip(text)}})

\* GenerateOutline with the vendor client called before the provider is
\* looked at
GenerateOutline_CallsFirst(provider, vendor) ==
    IF vendor.raised THEN Raise("VendorError", 0, 1)
    ELSE IF provider \in {"GOOGLE", "OPENAI"} THEN LoadReply(vendor.text, 1)
    ELSE IF provider = "ANTHROPIC" THEN LoadReply(strip(vendor.text), 1)
    ELSE Raise("HTTPException", 400, 1)

\* the if/elif chain of create_project
GenerateOutline(provider, vendor) ==
    IF provider = "GOOGLE" THEN
        IF vendor.raised THEN Raise("VendorError", 0, 1)
        ELSE LoadReply(vendor.text, 1)
    ELSE IF provider = "OPENAI" THEN
        IF vendor.raised THEN Raise("VendorError", 0, 1)
        ELSE LoadReply(vendor.text, 1)
    ELSE IF provider = "ANTHROPIC" THEN
        IF vendor.raised THEN Raise("VendorError", 0, 1)
        ELSE LoadReply(StripFence(vendor.text), 1)
    ELSE Raise("HTTPException", 400, 0)

\* the if/elif chain of analyze_chapter
GenerateAnalysis(provider, vendor) ==
    IF provider = "GOOGLE" THEN
        IF vendor.raised THEN Raise("VendorError", 0, 1)
        ELSE LoadReply(vendor.text, 1)
    ELSE IF provider = "OPENAI" THEN
        IF vendor.raised THEN Raise("VendorError", 0, 1)
        ELSE LoadReply(vendor.text, 1)
    ELSE IF provider = "ANTHROPIC" THEN
        IF vendor.raised THEN Raise("VendorError", 0, 1)
        ELSE LoadReply(StripFence(vendor.text), 1)
    ELSE Raise("HTTPException", 400, 0)

\* ExceptClauses without the json.JSONDecodeError clause
ExceptClauses_OnlyGeneric(exc) == Response(500, ProviderFailure, NoBody)

\* except json.JSONDecodeError ... except Exception ...: every exception of
\* the try block, HTTPException included, is an Exception
ExceptClauses(exc) ==
    IF exc = "JSONDecodeError"
    THEN Response(500, ParseFailure, NoBody)
    ELSE Response(500, ProviderFailure, NoBody)

(***************************************************************************)
(* The project store.  A file system is a function from paths to texts.    *)
(***************************************************************************)
\* open(path, "w") and f.write(...)
WriteFile(fs, path, text) ==
    [p \in (DOMAIN fs) \cup {path} |-> IF p = path THEN text ELSE fs[p]]

\* RemoveFile that empties the directory
RemoveFile_All(fs, path) == <<>>

\* os.remove(path)
RemoveFile(fs, path) == [p \in (DOMAIN fs) \ {path} |-> fs[p]]

\* save_project that writes the outline alone
save_project_OutlineOnly(fs, project) ==
    WriteFile(fs, get_project_path(project.id), json_dumps(project.outline))

save_project(fs, project) ==
    WriteFile(fs, get_project_path(project.id), model_dump_json(project))

\* Project(**data) on what json.load read from the file
LoadedProject(data) ==
    IF ~data.ok \/ data.val.t # "dict" THEN Response(500, ServerError, NoBody)
    ELSE The({IF project.ok THEN Response(200, "", project.val)
              ELSE Response(500, ServerError, NoBody) :
              project \in {ProjectValidate(data.val.v)}})

load_project(fs, project_id) ==
    IF get_project_path(project_id) \notin DOMAIN fs
    THEN Response(404, NotFound, NoBody)
    ELSE LoadedProject(json_loads(fs[get_project_path(project_id)]))

(***************************************************************************)
(* The endpoints.                                                          *)
(***************************************************************************)
\* Project(id=..., ..., outline=outline_json)
NewProject(title, concept, provider, outline_json, uuid, now) ==
    [id |-> ProjectId(uuid),
     title |-> title,
     created_at |-> now,
     provider |-> provider,
     concept |-> concept,
     outline |-> outline_json]

\* create_project from the dispatcher's result d on
CreateFrom(fs, new_project, d) ==
    IF d.exc # "none" THEN Outcome(ExceptClauses(d.exc), fs, d.calls)
    ELSE IF d.val.t # "dict"
         THEN Outcome(ExceptClauses("ValidationError"), fs, d.calls)
    ELSE Outcome(Response(201, "", new_project),
                 save_project(fs, new_project), d.calls)

create_project(fs, title, concept, provider, vendor, uuid, now) ==
    The({CreateFrom(fs, NewProject(title, concept, provider, d.val, uuid, now), d) :
         d \in {GenerateOutline(provider, vendor)}})

\* ChapterAnalysisResponse(**analysis_json)
AnalysisFrom(fs, a, calls) ==
    IF a.ok THEN Outcome(Response(200, "", a.val), fs, calls)
    ELSE Outcome(ExceptClauses("ValidationError"), fs, calls)

analyze_chapter(fs, provider, vendor) ==
    The({IF d.exc # "none" THEN Outcome(ExceptClauses(d.exc), fs, d.calls)
         ELSE IF d.val.t # "dict"
              THEN Outcome(ExceptClauses("TypeError"), fs, d.calls)
         ELSE AnalysisFrom(fs, ChapterAnalysisResponseValidate(d.val.v), d.calls) :
         d \in {GenerateAnalysis(provider, vendor)}})

\* the place of p in a list sorted by created_at, newest first; the sort is
\* stable, so p goes after the entries that are as new as it is
RECURSIVE InsertNewestFirst(_, _)
InsertNewestFirst(sorted, p) ==
    IF sorted = <<>> THEN <<p>>
    ELSE IF Head(sorted).created_at >= p.created_at
         THEN <<Head(sorted)>> \o InsertNewestFirst(Tail(sorted), p)
         ELSE <<p>> \o sorted

\* projects.sort(key=lambda p: p.created_at, reverse=True)
RECURSIVE SortNewestFirst(_, _)
SortNewestFirst(projects, sorted) ==
    IF projects = <<>> THEN sorted
    ELSE SortNewestFirst(Tail(projects), InsertNewestFirst(sorted, Head(projects)))

\* the loop over DATA_DIR.glob("*.json"), in the order the glob yields
RECURSIVE ScanFiles(_, _, _)

\* ProjectMetadata(**data) on what json.load read, and on to the next file
ScanFile(fs, order, projects, data) ==
    IF ~data.ok \/ data.val.t # "dict" THEN ScanFiles(fs, Tail(order), projects)
    ELSE The({IF m.ok THEN ScanFiles(fs, Tail(order), Append(projects, m.val))
              ELSE [exc |-> "ValidationError", projects |-> projects] :
              m \in {ProjectMetadataValidate(data.val.v)}})

ScanFiles(fs, order, projects) ==
    IF order = <<>> THEN [exc |-> "none", projects |-> projects]
    ELSE ScanFile(fs, order, projects, json_loads(fs[Head(order)]))

\* list_projects without the sort
list_projects_Unsorted(fs, order) ==
    The({IF scan.exc # "none" THEN Response(500, ServerError, NoBody)
         ELSE Response(200, "", scan.projects) :
         scan \in {ScanFiles(fs, order, <<>>)}})

list_projects(fs, order) ==
    The({IF scan.exc # "none" THEN Response(500, ServerError, NoBody)
         ELSE Response(200, "", SortNewestFirst(scan.projects, <<>>)) :
         scan \in {ScanFiles(fs, order, <<>>)}})

get_project(fs, project_id) == load_project(fs, project_id)

\* delete_project without the exists check
delete_project_NoCheck(fs, project_id) ==
    Outcome(Response(204, "", NoBody),
            RemoveFile(fs, get_project_path(project_id)), 0)

delete_project(fs, project_id) ==
    IF get_project_path(project_id) \notin DOMAIN fs
    THEN Outcome(Response(404, NotFound, NoBody), fs, 0)
    ELSE Outcome(Response(204, "", NoBody),
                 RemoveFile(fs, get_project_path(project_id)), 0)

\* the orders in which a glob can yield the files of a directory
GlobOrders(fs) ==
    {o \in [1..Cardinality(DOMAIN fs) -> DOMAIN fs] :
        \A i, j \in DOMAIN o : i # j => o[i] # o[j]}

(***************************************************************************)
(* Requests the model sends.                                               *)
(***************************************************************************)
Titles == {<<"A", "\"", "\\">>}
TheConcept ==
    [genre |-> <<"g">>, theme |-> <<"\"">>, core_idea |-> <<>>, style |-> <<"s">>]

\* {"outline":[1,"b",{}]}
J_outline ==
    <<"{", "\"", "o", "u", "t", "l", "i", "n", "e", "\"", ":",
      "[", "1", ",", "\"", "b", "\"", ",", "{", "}", "]", "}">>
\* {"summary":"s","characters":["a"]}
J_analysis ==
    <<"{", "\"", "s", "u", "m", "m", "a", "r", "y", "\"", ":", "\"", "s", "\"", ",",
      "\"", "c", "h", "a", "r", "a", "c", "t", "e", "r", "s", "\"", ":",
      "[", "\"", "a", "\"", "]", "}">>
\* {"summary":"s"}
J_no_characters ==
    <<"{", "\"", "s", "u", "m", "m", "a", "r", "y", "\"", ":", "\"", "s", "\"", "}">>
\* {"summary":"s","characters":[1]}
J_bad_characters ==
    <<"{", "\"", "s", "u", "m", "m", "a", "r", "y", "\"", ":", "\"", "s", "\"", ",",
      "\"", "c", "h", "a", "r", "a", "c", "t", "e", "r", "s", "\"", ":",
      "[", "1", "]", "}">>
\* [1]
J_list == <<"[", "1", "]">>

ClosingFence == <<Backtick, Backtick, Backtick>>
\* the fence line, J, and the closing fence
Fenced(J) == Fence \o <<"\n">> \o J \o <<"\n">> \o ClosingFence
\* a reply cut short: its last two characters are missing
Truncated(text) == SubSeq(text, 1, Len(text) - 2)

JsonObjects == {J_outline}

\* what a vendor call can do: return a text, or raise; NoReply where no call
\* is made
Reply(text) == [raised |-> FALSE, text |-> text]
VendorRaises == [raised |-> TRUE, text |-> <<>>]
NoReply == [raised |-> FALSE, text |-> <<>>]

OutlineTexts ==
    JsonObjects
    \cup {Fenced(J) : J \in JsonObjects}
    \cup {Truncated(J_outline), Truncated(Fenced(J_outline)), J_list,
          Fenced(J_outline) \o <<"\n">>}

AnalysisTexts ==
    {J_analysis, Fenced(J_analysis), J_no_characters, J_bad_characters,
     J_list, Truncated(J_analysis)}

OutlineReplies == {Reply(t) : t \in OutlineTexts} \cup {VendorRaises}
AnalysisReplies == {Reply(t) : t \in AnalysisTexts} \cup {VendorRaises}

\* the replies the vendor of a provider can give: only the three vendors the
\* code has a client for are ever called
RepliesOf(provider, replies) ==
    IF provider \in {"GOOGLE", "OPENAI", "ANTHROPIC"} THEN replies ELSE {NoReply}

UnknownId == <<"x">>
RequestIds == {ProjectId(u) : u \in Uuids} \cup {UnknownId}

(***************************************************************************)
(* State.                                                                  *)
(***************************************************************************)
VARIABLES
    files,      \* the data directory: path -> text of the file
    clock,      \* the latest value datetime.utcnow() has returned
    created,    \* history: the projects create_project has saved, in order
    last,       \* the latest request and the response it got
    th          \* per thread of the pool: the request it carries, and where it is

vars == <<files, clock, created, last, th>>

Threads == 1..MaxThreads

Request(op, provider, id, vendor) ==
    [op |-> op, provider |-> provider, id |-> id, vendor |-> vendor]

Last(req, resp, calls) ==
    [op |-> req.op, provider |-> req.provider, id |-> req.id,
     vendor |-> req.vendor, status |-> resp.status, detail |-> resp.detail,
     body |-> resp.body, calls |-> calls]

Issued == {created[i].id : i \in DOMAIN created}

\* uuid.uuid4(): a value it has not returned before.  No handler looks inside
\* an id, so the values are handed out in order.
uuid4 == Cardinality(Issued) + 1

\* a thread that carries no request
Idle == [pc |-> "idle", op |-> "none", id |-> <<>>, project |-> <<>>,
         todo |-> <<>>, acc |-> <<>>, status |-> 0]

Init ==
    /\ files = <<>>
    /\ clock = 0
    /\ created = <<>>
    /\ last = Last(Request("none", "NONE", <<>>, NoReply),
                   Response(0, "", NoBody), 0)
    /\ th = [t \in Threads |-> Idle]

\* POST /api/projects.  The id is the next value of uuid4, and the clock has
\* moved on since the previous project was stamped.
CreateProject ==
    \E title \in Titles, provider \in Provider, now \in 1..MaxClock :
      \E vendor \in RepliesOf(provider, OutlineReplies) :
        /\ uuid4 \in Uuids
        /\ now > clock
        /\ \E r \in {create_project(files, title, TheConcept, provider, vendor, uuid4, now)} :
               /\ files' = r.files
               /\ last' = Last(Request("create", provider, <<>>, vendor),
                               r.resp, r.calls)
               /\ IF r.resp.status = 201
                  THEN /\ created' = Append(created, r.resp.body)
                       /\ clock' = now
                  ELSE UNCHANGED <<created, clock>>
               /\ UNCHANGED th

\* POST /api/analyze-chapter
AnalyzeChapter ==
    \E provider \in Provider :
      \E vendor \in RepliesOf(provider, AnalysisReplies) :
      \E r \in {analyze_chapter(files, provider, vendor)} :
        /\ files' = r.files
        /\ last' = Last(Request("analyze", provider, <<>>, vendor), r.resp, r.calls)
        /\ UNCHANGED <<created, clock, th>>

\* GET /api/projects
ListProjects ==
    \E order \in GlobOrders(files) :
        /\ last' = Last(Request("list", "NONE", <<>>, NoReply),
                        list_projects(files, order), 0)
        /\ UNCHANGED <<files, created, clock, th>>

\* GET /api/projects/{project_id}
GetProject ==
    \E id \in RequestIds :
        /\ last' = Last(Request("get", "NONE", id, NoReply),
                        get_project(files, id), 0)
        /\ UNCHANGED <<files, created, clock, th>>

\* DELETE /api/projects/{project_id}
DeleteProject ==
    \E id \in RequestIds :
      \E r \in {delete_project(files, id)} :
        /\ files' = r.files
        /\ last' = Last(Request("delete", "NONE", id, NoReply), r.resp, 0)
        /\ UNCHANGED <<created, clock, th>>

Next ==
    \/ CreateProject
    \/ AnalyzeChapter
    \/ ListProjects
    \/ GetProject
    \/ DeleteProject

Spec == Init /\ [][Next]_vars

(***************************************************************************)
(* Properties of the sequential specification Spec.                        *)
(***************************************************************************)
Supported == {"GOOGLE", "OPENAI", "ANTHROPIC"}
Unimplemented == {"ZHIPU", "MOONSHOT", "BAIDU", "ALIBABA"}

\* the text a provider's branch hands to json.loads
Payload(provider, text) ==
    IF provider = "ANTHROPIC" THEN StripFence(text) ELSE text

\* the {id, title, created_at} projection of a project
Metadata(p) == [id |-> p.id, title |-> p.title, created_at |-> p.created_at]

\* the metadata of the projects created[1..n] that are still stored, the
\* latest created first
RECURSIVE StoredNewestFirst(_)
StoredNewestFirst(n) ==
    IF n = 0 THEN <<>>
    ELSE (IF get_project_path(created[n].id) \in DOMAIN files
          THEN <<Metadata(created[n])>> ELSE <<>>) \o StoredNewestFirst(n - 1)

\* C1: a create_project request for a declared-but-unimplemented provider
\* ends in the unsupported-provider client error, HTTP 400, never in a 500.
C1_UnsupportedIs400 ==
    (last.op = "create" /\ last.provider \in Unimplemented)
        => (last.status = 400 /\ last.detail = Unsupported)

\* C2: a request (outline generation or chapter analysis) for an
\* unimplemented provider ends in an error response with no vendor call made.
C2_NoCallForUnimplemented ==
    (last.op \in {"create", "analyze"} /\ last.provider \in Unimplemented)
        => (last.calls = 0 /\ last.status >= 400)

C2_Witness ==
    /\ last.op = "analyze"
    /\ last.provider = "MOONSHOT"
    /\ last.status >= 400
    /\ files # <<>>

\* C3: for a supported provider whose reply carries no parsable JSON,
\* create_project ends in the 'Failed to parse JSON from model response'
\* error and writes nothing: the files are what they were before the request.
C3_MalformedOutput ==
    [][(/\ last'.op = "create"
        /\ last'.provider \in Supported
        /\ ~last'.vendor.raised
        /\ ~json_loads(Payload(last'.provider, last'.vendor.text)).ok)
       => (/\ last'.status = 500
           /\ last'.detail = ParseFailure
           /\ files' = files)]_vars

C3_Witness ==
    /\ last.op = "create"
    /\ last.provider = "ANTHROPIC"
    /\ last.vendor = Reply(Truncated(Fenced(J_outline)))
    /\ last.detail = ParseFailure
    /\ files # <<>>

\* C4: a reply that is valid JSON of the wrong schema (outline: not an
\* object; analysis: no text 'summary' or no list-of-strings 'characters')
\* ends in the same malformed-model-output error as a reply that is not JSON.
C4_WrongSchemaIsMalformed ==
    (/\ last.op \in {"create", "analyze"}
     /\ last.provider \in Supported
     /\ ~last.vendor.raised
     /\ json_loads(Payload(last.provider, last.vendor.text)).ok
     /\ \/ json_loads(Payload(last.provider, last.vendor.text)).val.t # "dict"
        \/ /\ last.op = "analyze"
           /\ ~ChapterAnalysisResponseValidate(
                   json_loads(Payload(last.provider, last.vendor.text)).val.v).ok)
        => (last.status = 500 /\ last.detail = ParseFailure)

C6_ListNewestFirst ==
    last.op = "list"
        => (/\ last.status = 200
            /\ last.body = StoredNewestFirst(Len(created))
            /\ \A i, j \in 1..Len(last.body) :
                   i < j => last.body[i].created_at > last.body[j].created_at)

C6_Witness ==
    /\ last.op = "list"
    /\ last.status = 200
    /\ Len(last.body) = 2

\* C7: delete_project on an id with no stored project answers 404 and leaves
\* the store as it was; on a stored id it answers 204, and then get_project
\* on the id answers 404 and no listing holds the id.
C7_Delete ==
    [][last'.op = "delete"
       => IF get_project_path(last'.id) \notin DOMAIN files
          THEN last'.status = 404 /\ files' = files
          ELSE /\ last'.status = 204
               /\ get_project(files', last'.id).status = 404
               /\ \A order \in GlobOrders(files') :
                    \A k \in 1..Len(list_projects(files', order).body) :
                        list_projects(files', order).body[k].id # last'.id]_vars

C7_Witness ==
    /\ last.op = "delete"
    /\ last.status = 204
    /\ files # <<>>

\* C8: for the fenced-text provider, a reply made of the opening fence line,
\* a JSON object text J and the closing fence, and the reply J alone, both
\* normalise to J itself and give the parse of J.
C8_FenceStripping ==
    \A J \in JsonObjects \cup {J_analysis} :
        (/\ last.op \in {"create", "analyze"}
         /\ last.provider = "ANTHROPIC"
         /\ last.vendor \in {Reply(J), Reply(Fenced(J))})
            => (/\ StripFence(last.vendor.text) = J
                /\ last.op = "create" =>
                       (last.status = 201 /\ last.body.outline = json_loads(J).val)
                /\ last.op = "analyze" =>
                       (/\ last.status = 200
                        /\ last.body = ChapterAnalysisResponseValidate(
                                           json_loads(J).val.v).val))

C8_Witness ==
    /\ last.op = "create"
    /\ last.provider = "ANTHROPIC"
    /\ last.vendor = Reply(Fenced(J_outline))
    /\ last.status = 201

\* C9: no operation changes the text of a stored project; delete_project(X)
\* removes X alone, and analyze_chapter, list_projects, get_project and every
\* failed request leave the whole store as it was.
C9_StoredNeverMutated ==
    [][/\ \A p \in DOMAIN files :
            \/ p \in DOMAIN files' /\ files'[p] = files[p]
            \/ /\ last'.op = "delete"
               /\ last'.status = 204
               /\ p = get_project_path(last'.id)
       /\ (last'.op \in {"analyze", "list", "get"} \/ last'.status >= 400)
            => files' = files]_vars

C9_Witness ==
    /\ last.op = "delete"
    /\ last.status = 204
    /\ Cardinality(DOMAIN files) = 1
    /\ Len(created) = 2

(***************************************************************************)
(* The same endpoints as the thread pool runs them: a handler is a         *)
(* sequence of file-system calls, and the calls of concurrent requests     *)
(* interleave.  A thread ends a request with pc = "done" and the status    *)
(* the caller gets; an exception no handler catches is a 500.              *)
(***************************************************************************)
Done(t, status) == [th EXCEPT ![t].pc = "done", ![t].status = status]

\* create_project up to the construction of the Project (lines 99-145)
CreateDispatch(t) ==
    /\ th[t].pc = "idle"
    /\ \E provider \in {"GOOGLE", "ZHIPU"}, now \in 1..MaxClock :
         \E vendor \in RepliesOf(provider, {Reply(J_outline), Reply(J_list)}) :
           /\ uuid4 \in Uuids
           /\ now > clock
           /\ \E d \in {GenerateOutline(provider, vendor)} :
                IF d.exc # "none" \/ d.val.t # "dict"
                THEN /\ th' = [th EXCEPT ![t] = [Idle EXCEPT !.pc = "done",
                                                 !.op = "create", !.status = 500]]
                     /\ UNCHANGED <<created, clock>>
                ELSE \E p \in {NewProject(<<"A">>, TheConcept, provider, d.val, uuid4, now)} :
                       /\ th' = [th EXCEPT ![t] = [Idle EXCEPT !.pc = "save_open",
                                                   !.op = "create", !.id = p.id,
                                                   !.project = p]]
                       /\ created' = Append(created, p)
                       /\ clock' = now
    /\ UNCHANGED <<files, last>>

\* save_project: open(path, "w") creates the file, or empties it
SaveOpen(t) ==
    /\ th[t].pc = "save_open"
    /\ files' = WriteFile(files, get_project_path(th[t].id), <<>>)
    /\ th' = [th EXCEPT ![t].pc = "save_write"]
    /\ UNCHANGED <<clock, created, last>>

\* save_project: f.write(...) and the close; the text goes to the file that
\* was opened, which has a path only while nobody has removed it
SaveWrite(t) ==
    /\ th[t].pc = "save_write"
    /\ files' = IF get_project_path(th[t].id) \in DOMAIN files
                THEN WriteFile(files, get_project_path(th[t].id),
                               model_dump_json(th[t].project))
                ELSE files
    /\ th' = Done(t, 201)
    /\ UNCHANGED <<clock, created, last>>

\* load_project: path.exists()
GetExists(t) ==
    /\ th[t].pc = "idle"
    /\ \E id \in RequestIds :
         th' = [th EXCEPT ![t] =
                  IF get_project_path(id) \in DOMAIN files
                  THEN [Idle EXCEPT !.pc = "get_open", !.op = "get", !.id = id]
                  ELSE [Idle EXCEPT !.pc = "done", !.op = "get", !.id = id,
                                    !.status = 404]]
    /\ UNCHANGED <<files, clock, created, last>>

\* load_project: open(path, "r"), json.load, Project(**data)
GetOpen(t) ==
    /\ th[t].pc = "get_open"
    /\ th' = IF get_project_path(th[t].id) \notin DOMAIN files
             THEN Done(t, 500)
             ELSE Done(t, LoadedProject(
                              json_loads(files[get_project_path(th[t].id)])).status)
    /\ UNCHANGED <<files, clock, created, last>>

\* delete_project: path.exists()
DeleteExists(t) ==
    /\ th[t].pc = "idle"
    /\ \E id \in RequestIds :
         th' = [th EXCEPT ![t] =
                  IF get_project_path(id) \in DOMAIN files
                  THEN [Idle EXCEPT !.pc = "delete_remove", !.op = "delete", !.id = id]
                  ELSE [Idle EXCEPT !.pc = "done", !.op = "delete", !.id = id,
                                    !.status = 404]]
    /\ UNCHANGED <<files, clock, created, last>>

\* delete_project: os.remove(path)
DeleteRemove(t) ==
    /\ th[t].pc = "delete_remove"
    /\ IF get_project_path(th[t].id) \notin DOMAIN files
       THEN /\ th' = Done(t, 500)
            /\ UNCHANGED files
       ELSE /\ th' = Done(t, 204)
            /\ files' = RemoveFile(files, get_project_path(th[t].id))
    /\ UNCHANGED <<clock, created, last>>

\* list_projects: DATA_DIR.glob("*.json") reads the directory
ListGlob(t) ==
    /\ th[t].pc = "idle"
    /\ \E order \in GlobOrders(files) :
         th' = [th EXCEPT ![t] = [Idle EXCEPT !.pc = "list_scan", !.op = "list",
                                              !.todo = order]]
    /\ UNCHANGED <<files, clock, created, last>>

\* list_projects: open the next file of the glob, json.load, ProjectMetadata
ListOpen(t) ==
    /\ th[t].pc = "list_scan"
    /\ th[t].todo # <<>>
    /\ th' = IF Head(th[t].todo) \notin DOMAIN files
             THEN Done(t, 500)
             ELSE The({IF ~data.ok \/ data.val.t # "dict"
                       THEN [th EXCEPT ![t].todo = Tail(@)]
                       ELSE IF ProjectMetadataValidate(data.val.v).ok
                       THEN [th EXCEPT ![t].todo = Tail(@),
                                       ![t].acc = Append(@,
                                           ProjectMetadataValidate(data.val.v).val)]
                       ELSE Done(t, 500) :
                       data \in {json_loads(files[Head(th[t].todo)])}})
    /\ UNCHANGED <<files, clock, created, last>>

\* list_projects: the sort and the return
ListSort(t) ==
    /\ th[t].pc = "list_scan"
    /\ th[t].todo = <<>>
    /\ th' = [th EXCEPT ![t].pc = "done", ![t].status = 200,
                        ![t].acc = SortNewestFirst(@, <<>>)]
    /\ UNCHANGED <<files, clock, created, last>>

\* the response is sent and the thread is free again
Respond(t) ==
    /\ th[t].pc = "done"
    /\ th' = [th EXCEPT ![t] = Idle]
    /\ UNCHANGED <<files, clock, created, last>>

ConcNext ==
    \E t \in Threads :
        \/ CreateDispatch(t)
        \/ SaveOpen(t)
        \/ SaveWrite(t)
        \/ GetExists(t)
        \/ GetOpen(t)
        \/ DeleteExists(t)
        \/ DeleteRemove(t)
        \/ ListGlob(t)
        \/ ListOpen(t)
        \/ ListSort(t)
        \/ Respond(t)

ConcSpec == Init /\ [][ConcNext]_vars

\* C10: under every interleaving, every request ends in a documented
\* outcome: delete in 204 or 404, get in 200 or 404, list in 200, create in
\* 201 or 500; none ends in an unhandled file-system error.
C10_DocumentedOutcomes ==
    \A t \in Threads :
        th[t].pc = "done" =>
            /\ th[t].op = "delete" => th[t].status \in {204, 404}
            /\ th[t].op = "get" => th[t].status \in {200, 404}
            /\ th[t].op = "list" => th[t].status = 200
            /\ th[t].op = "create" => th[t].status \in {201, 500}
=============================================================================
